---- MODULE Spec2Model ----
(***************************************************************************)
(* The chunk map of snmalloc: the table from superslab-sized granules of   *)
(* the address space to a classification code, in its two realizations     *)
(* (DefaultChunkMap: one byte per cell; PALCHERIBSD::PalChunkMap: one       *)
(* pointer per cell whose low 8 address bits carry the same code), and the *)
(* ExternalGlobalPagemap mixin that imports the table of another module.   *)
(***************************************************************************)
EXTENDS Integers, Sequences, FiniteSets, TLC

(***************************************************************************)
(* Bounds of the model.                                                    *)
(***************************************************************************)
\* number of cells of the table (the address space is NumCells granules)
NumCells == 8
\* at most this many registrations are live at once
MaxLive == 2
\* the same where clears with arbitrary arguments are explored
MaxLiveAnyClear == 1
\* sizes of large allocations go up to MaxGranules granules (plus one byte)
MaxGranules == 4
\* log2 of the granule; at least 8 so that PAGEMAP_PTR_ALIGN divides it
SUPERSLAB_BITS == 8
\* width of size_t, scaled down; subtraction wraps modulo 2^BITS
BITS == 12
\* threads of the concurrent specification
NumThreads == 2

(***************************************************************************)
(* Program constants.                                                      *)
(***************************************************************************)
CMNotOurs == 0
CMSuperslab == 1
CMMediumslab == 2
\* first code of the entries within a large allocation
RedirectBase == 64
\* a uint8_t holds a value modulo this
Uint8Range == 256
PAGEMAP_PTR_ALIGN == 256
NULL == 0

SUPERSLAB_SIZE == 2^SUPERSLAB_BITS

Cells == 0..(NumCells - 1)
\* the granule-aligned addresses of the address space
Addrs == {c * SUPERSLAB_SIZE : c \in Cells}
Kinds == {CMSuperslab, CMMediumslab}
\* sizes passed to set_large_size / clear_large_size: below one granule,
\* whole granules (powers of two and not), and one byte more than the largest
Sizes == {1, SUPERSLAB_SIZE \div 2}
           \cup {m * SUPERSLAB_SIZE : m \in 1..MaxGranules}
           \cup {MaxGranules * SUPERSLAB_SIZE + 1}

(***************************************************************************)
(* bits:: helpers.                                                         *)
(***************************************************************************)
RECURSIVE BitLength(_)
\* BITS - clz(v): the number of significant bits of v
BitLength(v) == IF v = 0 THEN 0 ELSE 1 + BitLength(v \div 2)

\* bits::next_pow2_bits(x) = BITS - clz(x - 1), for x >= 1
next_pow2_bits(x) == BitLength(x - 1)

\* bits::next_pow2(x)
next_pow2(x) == 2^next_pow2_bits(x)

\* static_cast<uint8_t>
uint8(v) == v % Uint8Range

\* a - b in size_t arithmetic
size_t_sub(a, b) == (a - b) % (2^BITS)

(***************************************************************************)
(* The pagemap: get, set and set_range at granule resolution.  A write is  *)
(* a record [c |-> cell index, x |-> value]; a cell index outside the      *)
(* table is a store outside the pagemap's storage.                         *)
(***************************************************************************)
\* address >> SUPERSLAB_BITS
Index(a) == a \div SUPERSLAB_SIZE

pagemap_get(t, a) == t[Index(a)]

\* pagemap().set(a, x) as the one store it performs
set_writes(a, x) == << [c |-> Index(a), x |-> x] >>

\* pagemap().set_range(a, x, count) as its stores, in order; stores past the
\* end of the table are cut to the first of them
set_range_writes(a, x, count) ==
  LET first == Index(a)
      n == IF count = 0 THEN 0
           ELSE IF first >= NumCells THEN 1
           ELSE IF first + count > NumCells THEN (NumCells - first) + 1
           ELSE count
  IN [k \in 1..n |-> [c |-> first + (k - 1), x |-> x]]

RECURSIVE Apply(_, _)
\* the table after the stores ws, in order; a store outside the table ends
\* the run with a memory fault
Apply(t, ws) ==
  IF ws = << >> THEN [tab |-> t, st |-> "ok"]
  ELSE IF Head(ws).c \notin Cells THEN [tab |-> t, st |-> "fault"]
  ELSE Apply([t EXCEPT ![Head(ws).c] = Head(ws).x], Tail(ws))

\* the stores ws lie inside the table
InTable(ws) == \A k \in 1..Len(ws) : ws[k].c \in Cells

(***************************************************************************)
(* DefaultChunkMap.  Each operation is given as the stores it performs and *)
(* as the table it leaves; st is "ok", "abort" (a failed assert) or        *)
(* "fault" (a store outside the table).                                    *)
(***************************************************************************)
Default_get(t, a) == pagemap_get(t, a)

\* getp<true>(p); getp<false> does not compile (static_assert(offset))
Default_getp(p) == p

Default_set(a, x) == set_writes(a, uint8(x))

Default_set_slab(t, slab, kind) == Apply(t, Default_set(slab, kind))

\* clear_slab that asserts the tag and then stores nothing
Default_clear_slab_no_store(t, slab, kind) ==
  IF Default_get(t, slab) # kind
  THEN [tab |-> t, st |-> "abort"]
  ELSE [tab |-> t, st |-> "ok"]

Default_clear_slab(t, slab, kind) ==
  IF Default_get(t, slab) # kind
  THEN [tab |-> t, st |-> "abort"]
  ELSE Apply(t, Default_set(slab, CMNotOurs))

RECURSIVE Default_slide_inclusive(_, _, _)
\* the loop with the test i <= size_bits - SUPERSLAB_BITS
Default_slide_inclusive(ss, i, bound) ==
  IF i > bound THEN << >>
  ELSE LET run == 2^i
           ws == set_range_writes(ss, uint8(RedirectBase + i + SUPERSLAB_BITS), run)
       IN IF InTable(ws)
          THEN ws \o Default_slide_inclusive(ss + SUPERSLAB_SIZE * run, i + 1, bound)
          ELSE ws

RECURSIVE Default_slide_overstated(_, _, _)
\* the loop with codes that certify twice the distance: 64 + i + 1 +
\* SUPERSLAB_BITS
Default_slide_overstated(ss, i, bound) ==
  IF i >= bound THEN << >>
  ELSE LET run == 2^i
           ws == set_range_writes(ss, uint8(RedirectBase + i + 1 + SUPERSLAB_BITS), run)
       IN IF InTable(ws)
          THEN ws \o Default_slide_overstated(ss + SUPERSLAB_SIZE * run, i + 1, bound)
          ELSE ws

RECURSIVE Default_slide(_, _, _)
\* the loop of set_large_size from iteration i with the cursor at ss; it
\* stops at the first store outside the table
Default_slide(ss, i, bound) ==
  IF i >= bound THEN << >>
  ELSE LET run == 2^i
           ws == set_range_writes(ss, uint8(RedirectBase + i + SUPERSLAB_BITS), run)
       IN IF InTable(ws)
          THEN ws \o Default_slide(ss + SUPERSLAB_SIZE * run, i + 1, bound)
          ELSE ws

\* the bound of the loop, size_bits - SUPERSLAB_BITS, computed in size_t
Default_slide_bound(size) == size_t_sub(next_pow2_bits(size), SUPERSLAB_BITS)

\* set_large_size whose cursor starts at p instead of p + SUPERSLAB_SIZE
Default_set_large_size_writes_from_head(p, size) ==
  LET size_bits == next_pow2_bits(size)
  IN Default_set(p, size_bits)
       \o Default_slide(p, 0, size_t_sub(size_bits, SUPERSLAB_BITS))

Default_set_large_size_writes(p, size) ==
  LET size_bits == next_pow2_bits(size)
  IN Default_set(p, size_bits)
       \o Default_slide(p + SUPERSLAB_SIZE, 0, Default_slide_bound(size))

Default_set_large_size(t, p, size) == Apply(t, Default_set_large_size_writes(p, size))

\* clear_large_size that counts the cells of size, not of rounded_size
Default_clear_large_size_writes_unrounded(p, size) ==
  set_range_writes(p, CMNotOurs, size \div SUPERSLAB_SIZE)

\* clear_large_size that shifts by SUPERSLAB_BITS - 1
Default_clear_large_size_writes_double(p, size) ==
  set_range_writes(p, CMNotOurs, next_pow2(size) \div (SUPERSLAB_SIZE \div 2))

\* clear_large_size that clears one cell more than rounded_size covers
Default_clear_large_size_writes_one_more(p, size) ==
  set_range_writes(p, CMNotOurs, (next_pow2(size) \div SUPERSLAB_SIZE) + 1)

Default_clear_large_size_writes(p, size) ==
  set_range_writes(p, CMNotOurs, next_pow2(size) \div SUPERSLAB_SIZE)

Default_clear_large_size(t, p, size) ==
  IF Default_get(t, p) # next_pow2_bits(size)
  THEN [tab |-> t, st |-> "abort"]
  ELSE Apply(t, Default_clear_large_size_writes(p, size))

(***************************************************************************)
(* PALCHERIBSD::PalChunkMap.  A cell holds a pointer, modelled by its      *)
(* address; pointer_offset adds to the address.                            *)
(***************************************************************************)
pointer_offset(p, n) == p + n

pointer_align_down(align, p) == p - (p % align)

\* pointer_diff(base, cursor): the distance in bytes, a size_t
pointer_diff(base, cursor) == size_t_sub(cursor, base)

Pal_get(t, a) == uint8(pagemap_get(t, a))

\* getp that returns the stored pointer without clearing its low bits
Pal_getp_unmasked(t, p, offset) ==
  LET stored == pagemap_get(t, p)
      pmp == stored
  IN [cap |-> stored,
      addr |-> IF offset THEN pointer_offset(pmp, pointer_diff(pmp, p)) ELSE pmp]

\* getp<offset>(p): the pointer returned, as the stored pointer it is derived
\* from (cap) and its address
Pal_getp(t, p, offset) ==
  LET stored == pagemap_get(t, p)
      pmp == pointer_align_down(PAGEMAP_PTR_ALIGN, stored)
  IN [cap |-> stored,
      addr |-> IF offset THEN pointer_offset(pmp, pointer_diff(pmp, p)) ELSE pmp]

Pal_set(a, x) == set_writes(a, x)

\* set_slab that stores the slab pointer without the kind in its low bits
Pal_set_slab_untagged(t, slab, kind) ==
  IF pointer_align_down(SUPERSLAB_SIZE, slab) # slab
  THEN [tab |-> t, st |-> "abort"]
  ELSE Apply(t, Pal_set(slab, slab))

Pal_set_slab(t, slab, kind) ==
  IF pointer_align_down(SUPERSLAB_SIZE, slab) # slab
  THEN [tab |-> t, st |-> "abort"]
  ELSE Apply(t, Pal_set(slab, pointer_offset(slab, kind)))

Pal_clear_slab(t, slab, kind) ==
  IF pointer_align_down(SUPERSLAB_SIZE, slab) # slab
  THEN [tab |-> t, st |-> "abort"]
  ELSE Apply(t, Pal_set(slab, NULL))

RECURSIVE Pal_slide(_, _, _, _)
Pal_slide(vp, ss, i, bound) ==
  IF i >= bound THEN << >>
  ELSE LET run == 2^i
           ws == set_range_writes(
                   ss, pointer_offset(vp, RedirectBase + i + SUPERSLAB_BITS), run)
       IN IF InTable(ws)
          THEN ws \o Pal_slide(vp, ss + SUPERSLAB_SIZE * run, i + 1, bound)
          ELSE ws

\* set_large_size that stores vp itself in the head cell, without size_bits
Pal_set_large_size_writes_untagged_head(vp, size) ==
  LET size_bits == next_pow2_bits(size)
  IN Pal_set(vp, vp)
       \o Pal_slide(vp, pointer_offset(vp, SUPERSLAB_SIZE), 0,
                    size_t_sub(size_bits, SUPERSLAB_BITS))

Pal_set_large_size_writes(vp, size) ==
  LET size_bits == next_pow2_bits(size)
  IN Pal_set(vp, pointer_offset(vp, size_bits))
       \o Pal_slide(vp, pointer_offset(vp, SUPERSLAB_SIZE), 0,
                    size_t_sub(size_bits, SUPERSLAB_BITS))

Pal_set_large_size(t, vp, size) == Apply(t, Pal_set_large_size_writes(vp, size))

Pal_clear_large_size_writes(vp, size) ==
  set_range_writes(vp, NULL, next_pow2(size) \div SUPERSLAB_SIZE)

\* clear_large_size without the assert on the head
Pal_clear_large_size_unchecked(t, vp, size) ==
  Apply(t, Pal_clear_large_size_writes(vp, size))

Pal_clear_large_size(t, vp, size) ==
  IF Pal_get(t, vp) # next_pow2_bits(size)
  THEN [tab |-> t, st |-> "abort"]
  ELSE Apply(t, Pal_clear_large_size_writes(vp, size))

(***************************************************************************)
(* The backward search over the redirect slide that the distance codes     *)
(* are written for: from a cell, while the code x read is a distance code  *)
(* (x >= 64), move back by the 2^(x-64) bytes it certifies.                *)
(***************************************************************************)
RECURSIVE BackwardSearch(_, _, _, _)
\* get(a) is codes[Index(a)]; the search from a after reads reads, having
\* passed the cells visited: where it stops, the reads of distance codes it
\* took, the cells it passed and how it ended
BackwardSearch(codes, a, reads, visited) ==
  LET x == codes[Index(a)]
      here == visited \cup {Index(a)}
  IN IF x < RedirectBase
     THEN [a |-> a, reads |-> reads, visited |-> here, st |-> "stopped"]
     ELSE IF x < RedirectBase + SUPERSLAB_BITS
     THEN [a |-> a, reads |-> reads + 1, visited |-> here, st |-> "stuck"]
     ELSE IF a - 2^(x - RedirectBase) < 0
     THEN [a |-> a, reads |-> reads + 1, visited |-> here, st |-> "outside"]
     ELSE BackwardSearch(codes, a - 2^(x - RedirectBase), reads + 1, here)

\* the codes get returns, cell by cell
Default_codes(t) == [c \in DOMAIN t |-> Default_get(t, c * SUPERSLAB_SIZE)]

Pal_codes(t) == [c \in DOMAIN t |-> Pal_get(t, c * SUPERSLAB_SIZE)]

(***************************************************************************)
(* The pagemap providers and the exported accessor.                        *)
(***************************************************************************)
\* snmalloc_pagemap_global_get: the exporter's table and its PagemapConfig
snmalloc_pagemap_global_get(cfg) == [ptr |-> "global_pagemap", config |-> cfg]

\* T::cast_to_pagemap(ptr, c): ptr when c describes T, else nullptr
cast_to_pagemap(ptr, c) == IF c = "T" THEN ptr ELSE "nullptr"

\* GlobalPagemapTemplate<T>::pagemap()
GlobalPagemapTemplate_pagemap == "global_pagemap"

\* ExternalGlobalPagemap<T>::pagemap(): *external_pagemap
ExternalGlobalPagemap_pagemap(ext) == ext

(***************************************************************************)
(* State.                                                                  *)
(***************************************************************************)
VARIABLES
  pm,                \* the pagemap of DefaultChunkMap: cell -> uint8_t
  dst,               \* "ok", "abort" or "fault": the run on DefaultChunkMap
  cpm,               \* the pagemap of PalChunkMap: cell -> pointer address
  pst,               \* "ok", "abort" or "fault": the run on PalChunkMap
  live,              \* registrations made and not yet cleared by the caller
  last,              \* the last call: its name, its arguments as a
                     \* registration, and whether it closed a round trip
  provider,          \* the PagemapProviderTemplate: "Global" or "External"
  exporter_config,   \* the PagemapConfig of the exporting module
  external_pagemap,  \* ExternalGlobalPagemap<T>::external_pagemap
  ext_st,            \* "ok", "fatal" (Pal::error) or "nullderef"
  fetched,           \* what snmalloc_pagemap_global_get has handed out
  pagemap_ret,       \* what the last call of pagemap() returned
  tq,                \* per thread: the stores its current call has yet to do
  tpc,               \* per thread: "idle", "setting", "live" or "clearing"
  treg,              \* per thread: its registration, or NoReg
  writer,            \* per cell: the thread whose code the cell holds, or 0
  getp_ret,          \* what the last call returned in each realization
                     \* if it was a getp, else NoRet
  walk               \* the backward search of the last call in each
                     \* realization if it was a search, else NoWalk

chunk_vars == <<pm, dst, cpm, pst, live>>
ext_vars == <<provider, exporter_config, external_pagemap, ext_st, fetched, pagemap_ret>>
thread_vars == <<tq, tpc, treg, writer>>
vars == <<pm, dst, cpm, pst, live, last, provider, exporter_config,
          external_pagemap, ext_st, fetched, pagemap_ret, tq, tpc, treg, writer,
          getp_ret, walk>>

Threads == 1..NumThreads
\* no result: getp<false> of DefaultChunkMap is not instantiable
NotInstantiated == -1
NoRet == [default |-> NotInstantiated, pal |-> [cap |-> NULL, addr |-> NULL]]
NoSearch == [a |-> 0, reads |-> 0, visited |-> {}, st |-> "none"]
NoWalk == [default |-> NoSearch, pal |-> NoSearch]
\* the addresses passed to getp: the first, second and last byte of a granule
Bytes == {a + d : a \in Addrs, d \in {0, 1, SUPERSLAB_SIZE - 1}}
NoReg == [op |-> "none", a |-> 0, kind |-> 0, size |-> 0]
Reg(op, a, kind, size) == [op |-> op, a |-> a, kind |-> kind, size |-> size]
CallOf(op, r, rt) == [op |-> op, r |-> r, rt |-> rt]

\* the cells a registration reserves: one for a slab, the rounded size of a
\* large allocation
RoundedGranules == [S \in Sizes |-> next_pow2(S) \div SUPERSLAB_SIZE]

Footprint(r) ==
  IF r.op = "slab" THEN {Index(r.a)}
  ELSE LET n == RoundedGranules[r.size]
       IN Index(r.a)..(Index(r.a) + (IF n = 0 THEN 0 ELSE n - 1))

LiveCells == UNION {Footprint(r) : r \in live}

Init ==
  /\ pm = [c \in Cells |-> 0]
  /\ dst = "ok"
  /\ cpm = [c \in Cells |-> NULL]
  /\ pst = "ok"
  /\ live = {}
  /\ last = CallOf("init", NoReg, FALSE)
  /\ provider = "Global"
  /\ exporter_config = "T"
  /\ external_pagemap = "nullptr"
  /\ ext_st = "ok"
  /\ fetched = "nullptr"
  /\ pagemap_ret = "none"
  /\ tq = [t \in Threads |-> << >>]
  /\ tpc = [t \in Threads |-> "idle"]
  /\ treg = [t \in Threads |-> NoReg]
  /\ writer = [c \in Cells |-> 0]
  /\ getp_ret = NoRet
  /\ walk = NoWalk

\* the same call is applied to both realizations; r is what the operation
\* leaves
OnDefault(r) == pm' = r.tab /\ dst' = r.st

OnPal(r) == cpm' = r.tab /\ pst' = r.st

\* the process is alive: no abort, fault or fatal error so far in either
\* realization
Running == ext_st = "ok" /\ dst = "ok" /\ pst = "ok"

\* PagemapProvider::pagemap() as the configured provider evaluates it
PagemapProvider_pagemap ==
  IF provider = "Global" THEN GlobalPagemapTemplate_pagemap
  ELSE ExternalGlobalPagemap_pagemap(external_pagemap)

\* every operation of the chunk map reaches the table through pagemap();
\* through a null external_pagemap it ends in a null dereference
ViaPagemap(effect) ==
  /\ pagemap_ret' = PagemapProvider_pagemap
  /\ UNCHANGED <<provider, exporter_config, external_pagemap, fetched>>
  /\ IF PagemapProvider_pagemap = "nullptr"
     THEN ext_st' = "nullderef" /\ UNCHANGED chunk_vars
     ELSE ext_st' = ext_st /\ effect

(***************************************************************************)
(* The calls of the allocator into the chunk map.  Memory handed to        *)
(* set_slab and set_large_size is fresh: it lies in the address space and  *)
(* overlaps no live registration; cap bounds the live registrations.  A    *)
(* clear is either matched (it names a live registration) or, with         *)
(* matched = FALSE, arbitrary: the asserts are there for callers whose     *)
(* bookkeeping has diverged.                                               *)
(***************************************************************************)
SetSlab(slab, kind, cap) ==
  LET r == Reg("slab", slab, kind, 0)
  IN /\ Running
     /\ Cardinality(live) < cap
     /\ Footprint(r) \cap LiveCells = {}
     /\ ViaPagemap(/\ OnDefault(Default_set_slab(pm, slab, kind))
                   /\ OnPal(Pal_set_slab(cpm, slab, kind))
                   /\ live' = live \cup {r})
     /\ last' = CallOf("set_slab", r, FALSE)
     /\ getp_ret' = NoRet /\ walk' = NoWalk
     /\ UNCHANGED thread_vars

ClearSlab(slab, kind, matched) ==
  LET r == Reg("slab", slab, kind, 0)
  IN /\ Running
     /\ matched => r \in live
     /\ ViaPagemap(/\ OnDefault(Default_clear_slab(pm, slab, kind))
                   /\ OnPal(Pal_clear_slab(cpm, slab, kind))
                   /\ live' = live \ {r})
     /\ last' = CallOf("clear_slab", r, FALSE)
     /\ getp_ret' = NoRet /\ walk' = NoWalk
     /\ UNCHANGED thread_vars

SetLargeSize(p, size, cap) ==
  LET r == Reg("large", p, 0, size)
  IN /\ Running
     /\ Cardinality(live) < cap
     /\ Footprint(r) \subseteq Cells
     /\ Footprint(r) \cap LiveCells = {}
     /\ ViaPagemap(/\ OnDefault(Default_set_large_size(pm, p, size))
                   /\ OnPal(Pal_set_large_size(cpm, p, size))
                   /\ live' = live \cup {r})
     /\ last' = CallOf("set_large_size", r, FALSE)
     /\ getp_ret' = NoRet /\ walk' = NoWalk
     /\ UNCHANGED thread_vars

ClearLargeSize(p, size, matched) ==
  LET r == Reg("large", p, 0, size)
  IN /\ Running
     /\ matched => r \in live
     /\ ViaPagemap(/\ OnDefault(Default_clear_large_size(pm, p, size))
                   /\ OnPal(Pal_clear_large_size(cpm, p, size))
                   /\ live' = live \ {r})
     /\ last' = CallOf("clear_large_size", r,
                       r \in live /\ last = CallOf("set_large_size", r, FALSE))
     /\ getp_ret' = NoRet /\ walk' = NoWalk
     /\ UNCHANGED thread_vars

(***************************************************************************)
(* The constructor of ExternalGlobalPagemap, run by the importing module   *)
(* whenever it creates an instance of the mixin.                           *)
(***************************************************************************)
ExternalConstruct ==
  LET got == snmalloc_pagemap_global_get(exporter_config)
      cast == cast_to_pagemap(got.ptr, got.config)
  IN /\ provider = "External"
     /\ ext_st = "ok"
     /\ fetched' = got.ptr
     /\ external_pagemap' = cast
     /\ ext_st' = IF cast = "nullptr" THEN "fatal" ELSE "ok"
     /\ last' = CallOf("ExternalGlobalPagemap", NoReg, FALSE)
     /\ UNCHANGED <<chunk_vars, provider, exporter_config, pagemap_ret, thread_vars,
                    getp_ret, walk>>

\* calls whose preconditions hold, over GlobalPagemapTemplate
Next ==
  \/ \E slab \in Addrs, kind \in Kinds : SetSlab(slab, kind, MaxLive)
  \/ \E slab \in Addrs, kind \in Kinds : ClearSlab(slab, kind, TRUE)
  \/ \E p \in Addrs, size \in Sizes : SetLargeSize(p, size, MaxLive)
  \/ \E p \in Addrs, size \in Sizes : ClearLargeSize(p, size, TRUE)

Spec == Init /\ [][Next]_vars

\* the same with clears of anything, registered or not
NextAnyClear ==
  \/ \E slab \in Addrs, kind \in Kinds : SetSlab(slab, kind, MaxLiveAnyClear)
  \/ \E slab \in Addrs, kind \in Kinds : ClearSlab(slab, kind, FALSE)
  \/ \E p \in Addrs, size \in Sizes : SetLargeSize(p, size, MaxLiveAnyClear)
  \/ \E p \in Addrs, size \in Sizes : ClearLargeSize(p, size, FALSE)

SpecAnyClear == Init /\ [][NextAnyClear]_vars

\* getp<offset>(p) on any address, in both realizations
Getp(p, offset) ==
  /\ Running
  /\ ViaPagemap(UNCHANGED chunk_vars)
  /\ getp_ret' = IF PagemapProvider_pagemap = "nullptr" THEN NoRet
                 ELSE [default |-> IF offset THEN Default_getp(p)
                                   ELSE NotInstantiated,
                       pal |-> Pal_getp(cpm, p, offset)]
  /\ last' = CallOf("getp", Reg("getp", p, IF offset THEN 1 ELSE 0, 0), FALSE)
  /\ walk' = NoWalk
  /\ UNCHANGED thread_vars

\* the backward search from the cell of a, in both realizations
Search(a) ==
  /\ Running
  /\ ViaPagemap(UNCHANGED chunk_vars)
  /\ walk' = IF PagemapProvider_pagemap = "nullptr" THEN NoWalk
             ELSE [default |-> BackwardSearch(Default_codes(pm), a, 0, {}),
                   pal |-> BackwardSearch(Pal_codes(cpm), a, 0, {})]
  /\ last' = CallOf("search", Reg("search", a, 0, 0), FALSE)
  /\ getp_ret' = NoRet
  /\ UNCHANGED thread_vars

\* registrations, matched clears, rederivations and searches
NextGetp ==
  \/ \E slab \in Addrs, kind \in Kinds : SetSlab(slab, kind, MaxLiveAnyClear)
  \/ \E slab \in Addrs, kind \in Kinds : ClearSlab(slab, kind, TRUE)
  \/ \E p \in Addrs, size \in Sizes : SetLargeSize(p, size, MaxLiveAnyClear)
  \/ \E p \in Addrs, size \in Sizes : ClearLargeSize(p, size, TRUE)
  \/ \E p \in Bytes, offset \in BOOLEAN : Getp(p, offset)
  \/ \E a \in Addrs : Search(a)

SpecGetp == Init /\ [][NextGetp]_vars

(***************************************************************************)
(* Callers that keep the byte ranges [p, p + S) of their registrations     *)
(* granule-aligned and pairwise disjoint, and nothing more.                *)
(***************************************************************************)
\* sizes that are whole granules
GranuleSizes == {S \in Sizes : S % SUPERSLAB_SIZE = 0}

\* the cells of the bytes [r.a, r.a + size) of the registration r
ByteCells(r) ==
  IF r.op = "slab" THEN {Index(r.a)}
  ELSE Index(r.a)..(Index(r.a) + (r.size \div SUPERSLAB_SIZE) - 1)

LiveByteCells == UNION {ByteCells(r) : r \in live}

SetSlabBytes(slab, kind) ==
  LET r == Reg("slab", slab, kind, 0)
  IN /\ Running
     /\ Cardinality(live) < MaxLive
     /\ ByteCells(r) \cap LiveByteCells = {}
     /\ ViaPagemap(/\ OnDefault(Default_set_slab(pm, slab, kind))
                   /\ OnPal(Pal_set_slab(cpm, slab, kind))
                   /\ live' = live \cup {r})
     /\ last' = CallOf("set_slab", r, FALSE)
     /\ getp_ret' = NoRet /\ walk' = NoWalk
     /\ UNCHANGED thread_vars

\* the table covers the rounded allocation; only its bytes are kept apart
\* from the other registrations
SetLargeSizeBytes(p, size) ==
  LET r == Reg("large", p, 0, size)
  IN /\ Running
     /\ Cardinality(live) < MaxLive
     /\ Footprint(r) \subseteq Cells
     /\ ByteCells(r) \cap LiveByteCells = {}
     /\ ViaPagemap(/\ OnDefault(Default_set_large_size(pm, p, size))
                   /\ OnPal(Pal_set_large_size(cpm, p, size))
                   /\ live' = live \cup {r})
     /\ last' = CallOf("set_large_size", r, FALSE)
     /\ getp_ret' = NoRet /\ walk' = NoWalk
     /\ UNCHANGED thread_vars

\* the slabs next to the large allocations are Superslabs
NextBytes ==
  \/ \E slab \in Addrs : SetSlabBytes(slab, CMSuperslab)
  \/ \E slab \in Addrs : ClearSlab(slab, CMSuperslab, TRUE)
  \/ \E p \in Addrs, size \in GranuleSizes : SetLargeSizeBytes(p, size)
  \/ \E p \in Addrs, size \in GranuleSizes : ClearLargeSize(p, size, TRUE)

SpecBytes == Init /\ [][NextBytes]_vars

\* the importing module: the chunk map over ExternalGlobalPagemap, whose
\* exporter was built with the same configuration or with another, and whose
\* constructor runs at any point, before or after the first call
InitExternal ==
  /\ pm = [c \in Cells |-> 0]
  /\ dst = "ok"
  /\ cpm = [c \in Cells |-> NULL]
  /\ pst = "ok"
  /\ live = {}
  /\ last = CallOf("init", NoReg, FALSE)
  /\ provider = "External"
  /\ exporter_config \in {"T", "other"}
  /\ external_pagemap = "nullptr"
  /\ ext_st = "ok"
  /\ fetched = "nullptr"
  /\ pagemap_ret = "none"
  /\ tq = [t \in Threads |-> << >>]
  /\ tpc = [t \in Threads |-> "idle"]
  /\ treg = [t \in Threads |-> NoReg]
  /\ writer = [c \in Cells |-> 0]
  /\ getp_ret = NoRet
  /\ walk = NoWalk

NextExternal ==
  \/ \E slab \in Addrs, kind \in Kinds : SetSlab(slab, kind, MaxLiveAnyClear)
  \/ \E slab \in Addrs, kind \in Kinds : ClearSlab(slab, kind, TRUE)
  \/ \E p \in Addrs, size \in Sizes : SetLargeSize(p, size, MaxLiveAnyClear)
  \/ \E p \in Addrs, size \in Sizes : ClearLargeSize(p, size, TRUE)
  \/ ExternalConstruct

SpecExternal == InitExternal /\ [][NextExternal]_vars

(***************************************************************************)
(* Concurrent use of DefaultChunkMap over GlobalPagemapTemplate: each      *)
(* thread registers and unregisters slabs and large allocations in its own *)
(* part of the address space.  A call is the sequence of its stores, and   *)
(* the stores of different threads interleave; each store to a cell is     *)
(* atomic.                                                                 *)
(***************************************************************************)
\* the cells of the memory thread t allocates from
RegionCells == NumCells \div NumThreads

Region(t) == {c \in Cells : (t - 1) * RegionCells <= c /\ c < t * RegionCells}

\* the sizes of large allocations: at least one granule once rounded
LargeSizes == {S \in Sizes : next_pow2_bits(S) >= SUPERSLAB_BITS}

InitConc == Init

T_SetSlab(t, slab, kind) ==
  /\ dst = "ok" /\ tpc[t] = "idle"
  /\ Index(slab) \in Region(t)
  /\ tq' = [tq EXCEPT ![t] = Default_set(slab, kind)]
  /\ treg' = [treg EXCEPT ![t] = Reg("slab", slab, kind, 0)]
  /\ tpc' = [tpc EXCEPT ![t] = "setting"]
  /\ UNCHANGED <<chunk_vars, last, ext_vars, writer, getp_ret, walk>>

T_SetLargeSize(t, p, size) ==
  /\ dst = "ok" /\ tpc[t] = "idle"
  /\ Footprint(Reg("large", p, 0, size)) \subseteq Region(t)
  /\ tq' = [tq EXCEPT ![t] = Default_set_large_size_writes(p, size)]
  /\ treg' = [treg EXCEPT ![t] = Reg("large", p, 0, size)]
  /\ tpc' = [tpc EXCEPT ![t] = "setting"]
  /\ UNCHANGED <<chunk_vars, last, ext_vars, writer, getp_ret, walk>>

\* the assert of clear_slab reads the cell; its store follows
T_ClearSlab(t) ==
  /\ dst = "ok" /\ tpc[t] = "live" /\ treg[t].op = "slab"
  /\ IF Default_get(pm, treg[t].a) # treg[t].kind
     THEN dst' = "abort" /\ UNCHANGED <<tq, tpc>>
     ELSE /\ tq' = [tq EXCEPT ![t] = Default_set(treg[t].a, CMNotOurs)]
          /\ tpc' = [tpc EXCEPT ![t] = "clearing"]
          /\ dst' = dst
  /\ UNCHANGED <<pm, cpm, pst, live, last, ext_vars, treg, writer, getp_ret, walk>>

\* the assert of clear_large_size reads the head; the range write follows
T_ClearLargeSize(t) ==
  /\ dst = "ok" /\ tpc[t] = "live" /\ treg[t].op = "large"
  /\ IF Default_get(pm, treg[t].a) # next_pow2_bits(treg[t].size)
     THEN dst' = "abort" /\ UNCHANGED <<tq, tpc>>
     ELSE /\ tq' = [tq EXCEPT ![t] =
                      Default_clear_large_size_writes(treg[t].a, treg[t].size)]
          /\ tpc' = [tpc EXCEPT ![t] = "clearing"]
          /\ dst' = dst
  /\ UNCHANGED <<pm, cpm, pst, live, last, ext_vars, treg, writer, getp_ret, walk>>

\* the next store of the call thread t is in; the call returns with its last
T_Store(t) ==
  /\ dst = "ok" /\ tq[t] # << >>
  /\ LET w == Head(tq[t])
         done == Tail(tq[t]) = << >>
     IN IF w.c \notin Cells
        THEN dst' = "fault" /\ UNCHANGED <<pm, writer, tq, tpc, treg>>
        ELSE /\ pm' = [pm EXCEPT ![w.c] = w.x]
             /\ writer' = [writer EXCEPT ![w.c] = IF w.x = CMNotOurs THEN 0 ELSE t]
             /\ tq' = [tq EXCEPT ![t] = Tail(tq[t])]
             /\ tpc' = [tpc EXCEPT ![t] =
                          IF ~done THEN tpc[t]
                          ELSE IF tpc[t] = "setting" THEN "live" ELSE "idle"]
             /\ treg' = [treg EXCEPT ![t] =
                           IF done /\ tpc[t] = "clearing" THEN NoReg ELSE treg[t]]
             /\ dst' = dst
  /\ UNCHANGED <<cpm, pst, live, last, ext_vars, getp_ret, walk>>

NextConc ==
  \/ \E t \in Threads, slab \in Addrs, kind \in Kinds : T_SetSlab(t, slab, kind)
  \/ \E t \in Threads, p \in Addrs, size \in LargeSizes : T_SetLargeSize(t, p, size)
  \/ \E t \in Threads : T_ClearSlab(t)
  \/ \E t \in Threads : T_ClearLargeSize(t)
  \/ \E t \in Threads : T_Store(t)

SpecConc == InitConc /\ [][NextConc]_vars

(***************************************************************************)
(* Properties.                                                             *)
(***************************************************************************)
\* the cell of address a read through each realization
BothGet(a, x) == Default_get(pm, a) = x /\ Pal_get(cpm, a) = x

\* the address k granules after p
Granules(p, k) == p + k * SUPERSLAB_SIZE

\* a step that is the call named op: last' holds its name and arguments
StepOf(op) == last'.op = op /\ vars' # vars

\* the call of the step reaches the table: pagemap() is not a null reference
ReachesTable == PagemapProvider_pagemap # "nullptr"

\* C1: for every granule-aligned address a, right after set_slab(a) of a
\* Superslab get(a) is CMSuperslab, of a Mediumslab CMMediumslab, and right
\* after the matching clear_slab(a) get(a) is CMNotOurs, in DefaultChunkMap
\* and in PalChunkMap.
C1_SlabTagAfterSetAndClear ==
  Running =>
    /\ last.op = "set_slab" => BothGet(last.r.a, last.r.kind)
    /\ last.op = "clear_slab" => BothGet(last.r.a, CMNotOurs)

\* a Mediumslab has just been cleared while a Superslab is registered
C1_Witness ==
  /\ Running
  /\ last.op = "clear_slab" /\ last.r.kind = CMMediumslab
  /\ \E r \in live : r.op = "slab" /\ r.kind = CMSuperslab
                     /\ BothGet(r.a, CMSuperslab)

\* C2: after set_large_size(p, S) get(p) is log2(next_pow2(S)) and the code x
\* of the cell k granules after p, 1 <= k < next_pow2(S)/granule, satisfies
\* 2^(x-64) <= k < 2^(x+1-64), k counted in cells.
C2_DistanceCodeBoundsCells ==
  (Running /\ last.op = "set_large_size") =>
    LET p == last.r.a
        S == last.r.size
    IN /\ Default_get(pm, p) = next_pow2_bits(S)
       /\ \A k \in 1..((next_pow2(S) \div SUPERSLAB_SIZE) - 1) :
            LET x == Default_get(pm, Granules(p, k))
            IN /\ x >= RedirectBase
               /\ 2^(x - RedirectBase) <= k
               /\ k < 2^(x + 1 - RedirectBase)

\* the table of DefaultChunkMap, or the codes read from the table of
\* PalChunkMap (pal = TRUE), as a function of the cell
Codes(t, pal) == [c \in Cells |-> IF pal THEN uint8(t[c]) ELSE t[c]]

\* the doubling-run layout of an allocation of 2^b bytes at p over the codes
\* before: head b, offset k in 1..2^(b-SUPERSLAB_BITS)-1 holds
\* 64 + SUPERSLAB_BITS + floor(log2 k), every other cell as before
SlideLayout(before, after, p, b) ==
  \A c \in Cells :
    LET k == c - Index(p)
    IN IF k = 0 THEN after[c] = b
       ELSE IF 1 <= k /\ k < 2^(b - SUPERSLAB_BITS)
       THEN \E i \in 0..(b - SUPERSLAB_BITS - 1) :
              /\ 2^i <= k /\ k < 2^(i + 1)
              /\ after[c] = RedirectBase + i + SUPERSLAB_BITS
       ELSE after[c] = before[c]

\* C3: a set_large_size(p, S) with b = log2(next_pow2(S)) >= SUPERSLAB_BITS
\* leaves exactly the doubling-run layout, in both realizations: the runs
\* cover offsets 1 .. 2^(b-SUPERSLAB_BITS)-1 without gap or overlap and no
\* cell from offset 2^(b-SUPERSLAB_BITS) on is written.
C3_RedirectSlideLayout ==
  [][(StepOf("set_large_size") /\ Running'
        /\ next_pow2_bits(last'.r.size) >= SUPERSLAB_BITS) =>
       LET p == last'.r.a
           b == next_pow2_bits(last'.r.size)
       IN /\ SlideLayout(Codes(pm, FALSE), Codes(pm', FALSE), p, b)
          /\ SlideLayout(Codes(cpm, TRUE), Codes(cpm', TRUE), p, b)
          /\ \A c \in Cells :
               (c < Index(p) \/ c >= Index(p) + 2^(b - SUPERSLAB_BITS))
                 => cpm'[c] = cpm[c]]_vars

\* an allocation of 8 granules has just been registered: head, then runs of
\* 1, 2 and 4 cells
C3_Witness ==
  /\ Running
  /\ last.op = "set_large_size"
  /\ next_pow2_bits(last.r.size) = SUPERSLAB_BITS + 3
  /\ BothGet(last.r.a, SUPERSLAB_BITS + 3)
  /\ BothGet(Granules(last.r.a, 1), RedirectBase + SUPERSLAB_BITS)
  /\ BothGet(Granules(last.r.a, 3), RedirectBase + SUPERSLAB_BITS + 1)
  /\ BothGet(Granules(last.r.a, 7), RedirectBase + SUPERSLAB_BITS + 2)

\* the cells the stores ws go to
Written(ws) == {ws[k].c : k \in 1..Len(ws)}

\* C4: set_large_size(p, S) followed at once by clear_large_size(p, S), on
\* cells that were CMNotOurs, leaves every cell set_large_size wrote (head and
\* body) CMNotOurs, in both realizations.
C4_LargeRoundTrip ==
  (Running /\ last.op = "clear_large_size" /\ last.rt) =>
    /\ \A c \in Written(Default_set_large_size_writes(last.r.a, last.r.size)) :
         c \in Cells /\ pm[c] = CMNotOurs
    /\ \A c \in Written(Pal_set_large_size_writes(last.r.a, last.r.size)) :
         c \in Cells /\ uint8(cpm[c]) = CMNotOurs

\* a round trip of an allocation that is not a power of two and spans four
\* cells has just ended
C4_Witness ==
  /\ Running
  /\ last.op = "clear_large_size" /\ last.rt
  /\ last.r.size = 3 * SUPERSLAB_SIZE
  /\ Cardinality(Written(Default_set_large_size_writes(last.r.a, last.r.size))) = 4

CeilGranules(S) == (S + SUPERSLAB_SIZE - 1) \div SUPERSLAB_SIZE

\* the n cells from p on hold a value other than CMNotOurs and every other
\* cell is as before
OccupiesExactly(before, after, p, n) ==
  \A c \in Cells :
    IF Index(p) <= c /\ c < Index(p) + n
    THEN after[c] # CMNotOurs
    ELSE after[c] = before[c]

\* C6 as claimed: a large allocation of size S registered by
\* set_large_size(p, S) occupies exactly ceil(S / granule) contiguous cells,
\* for every S, powers of two or not.
C6_OccupiesCeilGranules ==
  [][(StepOf("set_large_size") /\ Running') =>
       OccupiesExactly(pm, pm', last'.r.a, CeilGranules(last'.r.size))]_vars

\* C6 as amended: a large allocation of size S registered by
\* set_large_size(p, S) occupies exactly next_pow2(S) / granule contiguous
\* cells (head log2(next_pow2(S)), then distance codes), for every S for
\* which set_large_size returns, powers of two or not.
C6_OccupiesNextPow2Granules ==
  [][(StepOf("set_large_size") /\ Running') =>
       /\ OccupiesExactly(pm, pm', last'.r.a,
                          next_pow2(last'.r.size) \div SUPERSLAB_SIZE)
       /\ pm'[Index(last'.r.a)] = next_pow2_bits(last'.r.size)]_vars

\* three granules have just been registered and the fourth cell holds a code
C6_Witness ==
  /\ Running
  /\ last.op = "set_large_size"
  /\ last.r.size = 3 * SUPERSLAB_SIZE
  /\ Default_get(pm, Granules(last.r.a, 3)) = RedirectBase + SUPERSLAB_BITS + 1

\* the code the registration r gives to its cell c
ExpectedCode(r, c) ==
  IF r.op = "slab" THEN r.kind
  ELSE IF c = Index(r.a) THEN next_pow2_bits(r.size)
  ELSE RedirectBase + SUPERSLAB_BITS + (BitLength(c - Index(r.a)) - 1)

C8_ClearSlabAssertsTag ==
  [][(StepOf("clear_slab") /\ ReachesTable) =>
       LET slab == last'.r.a
           kind == last'.r.kind
       IN /\ IF Default_get(pm, slab) # kind
             THEN dst' = "abort" /\ pm' = pm
             ELSE dst' = "ok" /\ Default_get(pm', slab) = CMNotOurs
          /\ IF Pal_get(cpm, slab) # kind
             THEN pst' = "abort" /\ cpm' = cpm
             ELSE pst' = "ok" /\ Pal_get(cpm', slab) = CMNotOurs]_vars

\* count cells from p on are CMNotOurs / NULL, every other cell is as before
RangeCleared(before, after, p, count) ==
  \A c \in Cells :
    after[c] = IF Index(p) <= c /\ c < Index(p) + count THEN 0 ELSE before[c]

\* C9: clear_large_size(p, S) checks first that the head cell holds
\* log2(next_pow2(S)); if not it ends in an assertion failure with the whole
\* table unchanged, and if so exactly next_pow2(S) >> SUPERSLAB_BITS cells
\* from p on are set to CMNotOurs.
C9_ClearLargeChecksHead ==
  [][(StepOf("clear_large_size") /\ ReachesTable) =>
       LET p == last'.r.a
           S == last'.r.size
       IN /\ IF Default_get(pm, p) # next_pow2_bits(S)
             THEN dst' = "abort" /\ pm' = pm
             ELSE dst' = "ok"
                  /\ RangeCleared(pm, pm', p, next_pow2(S) \div SUPERSLAB_SIZE)
          /\ IF Pal_get(cpm, p) # next_pow2_bits(S)
             THEN pst' = "abort" /\ cpm' = cpm
             ELSE pst' = "ok"
                  /\ RangeCleared(cpm, cpm', p, next_pow2(S) \div SUPERSLAB_SIZE)]_vars

\* a clear_large_size with another size has failed its assertion on the head
\* of a registered allocation, whose cells are as they were
C9_Witness ==
  /\ dst = "abort" /\ pst = "abort"
  /\ last.op = "clear_large_size"
  /\ \E r \in live : /\ r.op = "large" /\ r.a = last.r.a
                     /\ next_pow2_bits(r.size) > SUPERSLAB_BITS
                     /\ next_pow2_bits(r.size) # next_pow2_bits(last.r.size)
                     /\ BothGet(r.a, next_pow2_bits(r.size))
                     /\ BothGet(Granules(r.a, 1), RedirectBase + SUPERSLAB_BITS)

\* C10 as claimed: with ExternalGlobalPagemap every call of pagemap() returns
\* a table that was fetched through snmalloc_pagemap_global_get and passed
\* cast_to_pagemap, and pagemap() never dereferences a pointer that was not
\* fetched and validated.
C10_PagemapFetchedAndValidated ==
  provider = "External" =>
    /\ ext_st # "nullderef"
    /\ pagemap_ret # "none" =>
         /\ pagemap_ret = fetched
         /\ pagemap_ret = cast_to_pagemap(fetched, exporter_config)
         /\ pagemap_ret # "nullptr"

\* the bytes [r.a, r.a + size) of the registration r contain p
InBytes(r, p) ==
  r.a <= p /\ p < r.a + (IF r.op = "slab" THEN SUPERSLAB_SIZE ELSE r.size)

\* the pointer the registration r stored in its cell c
StoredPointer(r, c) == pointer_offset(r.a, ExpectedCode(r, c))

SearchFindsHead(s, r, k) ==
  /\ s.st = "stopped"
  /\ s.a = r.a
  /\ s.visited \subseteq Footprint(r)
  /\ \A c \in s.visited : c >= Index(r.a)
  /\ s.reads <= BitLength(k)

\* C12: after set_large_size(p, S), from the body cell at any offset k >= 1
\* (k < next_pow2(S)/granule), reading the distance code x and moving back by
\* 2^(x-64) bytes, repeatedly, never moves before the head cell, always lands
\* on a cell of the same allocation and reaches the head after at most
\* floor(log2 k) + 1 reads.
C12_BackwardSearchFindsHead ==
  (Running /\ last.op = "search") =>
    \A r \in live :
      (r.op = "large" /\ Index(last.r.a) \in Footprint(r) /\ last.r.a # r.a) =>
        /\ SearchFindsHead(walk.default, r, Index(last.r.a) - Index(r.a))
        /\ SearchFindsHead(walk.pal, r, Index(last.r.a) - Index(r.a))

\* a search from offset 7 of an allocation of 8 cells has reached the head
\* after 3 reads
C12_Witness ==
  /\ Running
  /\ last.op = "search"
  /\ \E r \in live :
       /\ r.op = "large" /\ Index(last.r.a) - Index(r.a) = 7
       /\ walk.default.st = "stopped" /\ walk.default.a = r.a
       /\ walk.default.reads = 3
       /\ Cardinality(walk.default.visited) = 4

\* C13 as claimed: for every size S, sizes below one granule included, the
\* redirect-slide loop of set_large_size terminates after at most
\* 64 - SUPERSLAB_BITS iterations (BITS - SUPERSLAB_BITS for a size_t of BITS
\* bits) and every value it writes is a head code in [SUPERSLAB_BITS, 64) or
\* a distance code in [64, 128).
C13_SlideLoopBounded ==
  [][(StepOf("set_large_size") /\ ReachesTable) =>
       LET S == last'.r.size
           ws == Default_set_large_size_writes(last'.r.a, S)
       IN /\ dst' = "ok"
          /\ Default_slide_bound(S) <= BITS - SUPERSLAB_BITS
          /\ SUPERSLAB_BITS <= ws[1].x /\ ws[1].x < RedirectBase
          /\ \A k \in 2..Len(ws) :
               RedirectBase <= ws[k].x /\ ws[k].x < 2 * RedirectBase]_vars

\* the cells set_large_size(p, S) and clear_large_size(p, S) store to in
\* DefaultChunkMap, for every p and S
SetLargeSizeCells ==
  [p \in Addrs, S \in Sizes |-> Written(Default_set_large_size_writes(p, S))]

ClearLargeSizeCells ==
  [p \in Addrs, S \in Sizes |-> Written(Default_clear_large_size_writes(p, S))]

\* the cells the range writes of the call of the step store to
StepWrites ==
  IF dst' # "ok" THEN {}
  ELSE IF last'.op = "set_large_size"
  THEN SetLargeSizeCells[last'.r.a, last'.r.size]
  ELSE IF last'.op = "clear_large_size"
  THEN ClearLargeSizeCells[last'.r.a, last'.r.size]
  ELSE {}

\* every cell whose code changes goes from CMNotOurs to a code or from a code
\* to CMNotOurs, in both realizations
CellsChangeToOrFromNotOurs ==
  \A c \in Cells :
    /\ pm'[c] # pm[c] => (pm[c] = CMNotOurs \/ pm'[c] = CMNotOurs)
    /\ uint8(cpm'[c]) # uint8(cpm[c]) =>
         (uint8(cpm[c]) = CMNotOurs \/ uint8(cpm'[c]) = CMNotOurs)

\* C14 as claimed: while the byte ranges [p, p + S) of the live slabs and
\* large allocations are granule-aligned and pairwise disjoint, the range
\* write of set_large_size or clear_large_size for one allocation never
\* touches a cell in the live range of another, and every change of a cell is
\* CMNotOurs -> code or code -> CMNotOurs, never code -> different code.
C14_RangeWritesKeepToByteRange ==
  [][(Running /\ Running') =>
       /\ CellsChangeToOrFromNotOurs
       /\ LET w == StepWrites
          IN \A o \in live \ {last'.r} : w \cap ByteCells(o) = {}]_vars

\* the rounded ranges [p, p + next_pow2(S)) of the registrations in L are
\* pairwise disjoint
RoundedDisjoint(L) ==
  \A a, b \in L : a # b => Footprint(a) \cap Footprint(b) = {}

\* C14 as amended: while the rounded ranges [p, p + next_pow2(S)) of the live
\* slabs and large allocations are granule-aligned and pairwise disjoint, the
\* range write of set_large_size or clear_large_size for one allocation never
\* touches a cell in the rounded range of another, and every change of a cell
\* is CMNotOurs -> code or code -> CMNotOurs.
C14_RangeWritesKeepToRoundedRange ==
  [][(Running /\ Running' /\ RoundedDisjoint(live \cup live')) =>
       /\ CellsChangeToOrFromNotOurs
       /\ LET w == StepWrites
          IN \A o \in live \ {last'.r} : w \cap Footprint(o) = {}]_vars

\* three granules have been registered, four cells written, right before a
\* live slab whose cell still holds its kind
C14_Witness ==
  /\ Running
  /\ last.op = "set_large_size" /\ last.r.size = 3 * SUPERSLAB_SIZE
  /\ RoundedDisjoint(live)
  /\ Default_get(pm, Granules(last.r.a, 3)) = RedirectBase + SUPERSLAB_BITS + 1
  /\ \E o \in live : /\ o.op = "slab" /\ o.a = Granules(last.r.a, 4)
                       /\ BothGet(o.a, o.kind)

\* C15: PalChunkMap refines DefaultChunkMap: after every step of the same
\* sequence of set_slab, clear_slab, set_large_size and clear_large_size
\* calls (granule-aligned addresses, preconditions holding), on cells that
\* start NULL and 0, get(a) returns the same 8-bit value in both for every
\* address a: the low 8 bits of each stored pointer are the byte the plain
\* realization stores, and a NULL cell reads as CMNotOurs.
C15_PalRefinesDefault ==
  Running =>
    \A a \in Bytes :
      /\ Pal_get(cpm, a) = Default_get(pm, a)
      /\ uint8(pagemap_get(cpm, a)) = pagemap_get(pm, a)
      /\ pagemap_get(cpm, a) = NULL => Pal_get(cpm, a) = CMNotOurs

\* a slab has been cleared while a large allocation is live whose body cell
\* holds a pointer in PalChunkMap and a distance code in DefaultChunkMap
C15_Witness ==
  /\ Running
  /\ last.op = "clear_slab"
  /\ cpm[Index(last.r.a)] = NULL /\ pm[Index(last.r.a)] = CMNotOurs
  /\ \E r \in live :
       /\ r.op = "large" /\ r.a # 0
       /\ Index(r.a) + 1 \in Footprint(r)
       /\ cpm[Index(r.a) + 1] = r.a + RedirectBase + SUPERSLAB_BITS
       /\ pm[Index(r.a) + 1] = RedirectBase + SUPERSLAB_BITS
       /\ cpm[Index(r.a)] # pm[Index(r.a)]

====
